---- MODULE Spec2Model ----
(***************************************************************************)
(* Audio-reactive LED controller (ESP32, MAX9814 microphone, WS2812B).     *)
(*                                                                         *)
(* Two builds of one pipeline are modelled side by side:                   *)
(*   variant "strips"  src/src/main.cpp      two strips of 28 and 32 LEDs  *)
(*   variant "groups"  src/unnamed/part_000  four groups of 16,12,16,16    *)
(*                                                                         *)
(* Two tasks run concurrently: the HTTP handlers of webServerTask write    *)
(* the volatile integer `mode`; lightMusicTask loops forever through       *)
(* acquire, analyze, smooth, clear, render, show, yield and reads `mode`   *)
(* in the comparisons of its if / else-if chain.                           *)
(*                                                                         *)
(* The FFT library is not part of the repository.  In the task-level       *)
(* specifications a sample block is therefore represented by what the      *)
(* library returns for it (band means, energy, raw deviation), drawn from  *)
(* a small set of signals; the sample-level acquisition loop is specified  *)
(* on concrete readings by SpecAcquire.                                    *)
(***************************************************************************)
EXTENDS Integers, Sequences, FiniteSets, TLC

(* ----------------------------- bounds -------------------------------- *)

\* cycles of the pipeline explored when the signal may change between cycles
MaxCycles == 1
\* HTTP requests handled in one behaviour
MaxRequests == 2
\* HTTP requests handled in one behaviour of the steady-signal specification
SteadyRequests == 1
\* cycles counted in the steady-signal specification (the smoother saturates at 50)
SteadyCycles == 52
\* samples of one block in the sample-level acquisition specification
BlockLen == 3
\* energy buckets explored by the energy-bucket specification (250 wide each)
EnergySteps == 18
\* cycles of the tiered-bar specification (the thresholds follow the averages)
TierCycles == 3

(* ------------------------- program constants ------------------------- *)

NUM_LEDS_CIRCLE1 == 16
NUM_LEDS_CIRCLES_TOTAL == 28
NUM_LEDS_SQUARE1 == 16
NUM_LEDS_SQUARES_TOTAL == 32
NUM_LEDS_16_CIRCLE == 16
NUM_LEDS_12_CIRCLE == 12
NUM_LEDS_L_SQUARE == 16
NUM_LEDS_R_SQUARE == 16
\* largest value of the 12-bit ADC
AdcMax == 4095
\* mid-scale substitute for an out-of-range first sample
AdcMid == 2048
\* saturation value of the smoother's sample count
CountCap == 50
\* width of one energy bucket of mode 3 ("groups")
BucketWidth == 250
\* samples of a block, which is also the number of spectrum indices
SAMPLES == 128
\* first spectrum index of the mid band and of the treble band
BassEnd == 20
MidEnd == 80

Variants == {"strips", "groups"}

\* mode at start-up
InitialMode(v) ==
    IF v = "strips" THEN 3 ELSE 2

\* LED buffers of a build and their lengths
GroupsOf(v) ==
    IF v = "strips"
    THEN {"leds_circles", "leds_squares"}
    ELSE {"leds_16_circle", "leds_12_circle", "leds_L_SQUARE", "leds_R_SQUARE"}

GroupLen(g) ==
    CASE g = "leds_circles"   -> NUM_LEDS_CIRCLES_TOTAL
      [] g = "leds_squares"   -> NUM_LEDS_SQUARES_TOTAL
      [] g = "leds_16_circle" -> NUM_LEDS_16_CIRCLE
      [] g = "leds_12_circle" -> NUM_LEDS_12_CIRCLE
      [] g = "leds_L_SQUARE"  -> NUM_LEDS_L_SQUARE
      [] g = "leds_R_SQUARE"  -> NUM_LEDS_R_SQUARE

(* --------------------------- colours --------------------------------- *)

\* CRGB(r, g, b): three 8-bit channels (an int argument is cut to uint8_t)
CRGB(r, g, b) ==
    <<r % 256, g % 256, b % 256>>

Black ==
    <<0, 0, 0>>

\* all buffers of a build, dark (the state after FastLED.clear())
Cleared(v) ==
    [g \in GroupsOf(v) |-> [i \in 0..(GroupLen(g) - 1) |-> Black]]

(* ------------------------- arithmetic -------------------------------- *)

Min(a, b) ==
    IF a < b THEN a ELSE b

Max(a, b) ==
    IF a > b THEN a ELSE b

RECURSIVE GCD(_, _)
GCD(a, b) ==
    IF b = 0 THEN a ELSE GCD(b, a % b)

\* a non-negative rational <<numerator, denominator>> in lowest terms
Rat(n, d) ==
    LET g == GCD(n, d) IN <<n \div g, d \div g>>

\* Arduino map(x, in_min, in_max, out_min, out_max) on long: no clamping
Map(x, inMin, inMax, outMin, outMax) ==
    ((x - inMin) * (outMax - outMin)) \div (inMax - inMin) + outMin

\* Arduino constrain(x, lo, hi)
Constrain(x, lo, hi) ==
    IF x < lo THEN lo ELSE IF x > hi THEN hi ELSE x

(* --------------------------- signals --------------------------------- *)

\* What the analysis of one acquired block yields before normalisation:
\*   bandR, bandG, bandB  integer band means (lines 371-384)
\*   energy               RMS of the magnitudes (line 395), 0 only for silence
\*   rawDev               mean absolute deviation of vRawData (mode 4, "groups")
\*   rawR, rawG, rawB     normalised band amplitudes of the second path (mode 5)
Sig(bR, bG, bB, e, dev, rR, rG, rB) ==
    [bandR |-> bR, bandG |-> bG, bandB |-> bB, energy |-> e,
     rawDev |-> dev, rawR |-> rR, rawG |-> rG, rawB |-> rB]

Silence ==
    Sig(0, 0, 0, 0, 0, 0, 0, 0)

Quiet ==
    Sig(100, 40, 10, 100, 120, 160, 45, 20)

Loud ==
    Sig(9000, 1500, 300, 4500, 700, 310, 30, 12)

Signals ==
    {Silence, Quiet, Loud}

VARIABLES
    variant,        \* which build runs
    mode,           \* volatile int mode
    pc,             \* stage lightMusicTask is about to execute
    cmp,            \* k of the next comparison `mode == k` of the render chain
    signal,         \* what the microphone currently delivers
    block,          \* the acquired block (by its analysis outcome)
    ampR, ampG, ampB, avgEnergy,
    avgAmpR, avgAmpG, avgAmpB, count,
    small_circle,   \* sweep position of mode 2 ("groups")
    leds,           \* the LED buffers
    frame,          \* the buffers as last pushed by FastLED.show()
    sink,           \* LED Sink calls of the current cycle, in order
    written,        \* LED cells assigned in the current cycle
    stages,         \* stages executed in the current cycle, in order
    rendered,       \* render branch executed in the current cycle, 0 if none
    modeHeld,       \* values `mode` has held since the current cycle started
    modeReads,      \* reads of `mode` in the current cycle
    divisors,       \* denominators of the divisions by a variable in the current cycle
    assigned,       \* <<group, index>> of the LED cells assigned in the current cycle
    lastRequest,    \* K of the last handled GET /modeK, 0 if none
    requests,       \* requests handled so far
    cycles,         \* completed cycles
    readings,       \* analogRead results of the block being acquired
    vReal,          \* sample block under acquisition (sample-level)
    vRawData,       \* retained raw copy ("groups")
    vImag,          \* imaginary parts of the block (sample-level)
    normalized,     \* the normalisation of the primary path was executed
    raw             \* the second path of mode 5 ("groups"): its locals

taskVars ==
    <<pc, cmp, block, ampR, ampG, ampB, avgEnergy, avgAmpR, avgAmpG, avgAmpB,
      count, small_circle, leds, frame, sink, written, stages, rendered, cycles,
      divisors, assigned>>

sampleVars ==
    <<readings, vReal, vRawData, vImag, normalized, raw>>

vars ==
    <<variant, mode, signal, modeHeld, modeReads, lastRequest, requests,
      taskVars, sampleVars>>


(* ------------------ analysis (lines 371-407) ------------------------- *)

\* mutant: the quotient is cut to an int before the gain is applied
NormalizeGainLast(band, energy, gain) ==
    IF energy > 0 THEN (band \div energy) * gain ELSE band

\* `amp = (amp / avgEnergy) * gain` into an int, skipped when the energy is 0
Normalize(band, energy, gain) ==
    IF energy > 0 THEN (band * gain) \div energy ELSE band

\* the denominator of the three divisions amp / avgEnergy, when they are executed
NormalizeDivisors(energy) ==
    IF energy > 0 THEN {energy} ELSE {}

(* ------------------ smoother (lines 416-425) ------------------------- *)

\* mutant: the count is incremented before the average is taken
SmoothedAfterIncrement(avg, c, amp) ==
    Rat(avg[1] * (c + 1) + amp * avg[2], avg[2] * (c + 2))

\* avg = (avg * count + amp) / (count + 1), exact
Smoothed(avg, c, amp) ==
    Rat(avg[1] * c + amp * avg[2], avg[2] * (c + 1))

\* mutant: the cap is missing
NextCountNoCap(c) ==
    c + 1

\* count++; if (count > 50) count = 50;
NextCount(c) ==
    IF c + 1 > CountCap THEN CountCap ELSE c + 1

\* int porig = avg * k, k = 0.8, 1.2, 0.8 (tenths: 8, 12, 8)
Porig(avg, tenths) ==
    (avg[1] * tenths) \div (avg[2] * 10)

porigR ==
    Porig(avgAmpR, 8)

porigG ==
    Porig(avgAmpG, 12)

porigB ==
    Porig(avgAmpB, 8)

(* ------------------------- rendering --------------------------------- *)

\* buffer g of buf with cells [from, to) set to col
Fill(buf, g, from, to, col) ==
    [buf EXCEPT ![g] = [i \in DOMAIN @ |-> IF from <= i /\ i < to THEN col ELSE @[i]]]

\* a render result: the buffers, the number of cells assigned, the sweep
\* position, the LED Sink calls made inside the branch, the denominators
\* of its divisions by a variable and the cells it assigned
Res(buf, sc) ==
    [buf |-> buf, n |-> 0, sc |-> sc, calls |-> <<>>, den |-> {}, cells |-> {}]

\* std::fill(g + from, g + to, col) / fill_solid(g + from, to - from, col)
Wr(res, g, from, to, col) ==
    [res EXCEPT !.buf = Fill(@, g, from, to, col), !.n = @ + Max(0, to - from),
                !.cells = @ \cup {<<g, i>> : i \in from..(to - 1)}]

\* cells g[idx[1]], ..., g[idx[k]] set to col, one assignment each
RECURSIVE WrCells(_, _, _, _, _)
WrCells(res, g, idx, k, col) ==
    IF k <= 0 THEN res
    ELSE Wr(WrCells(res, g, idx, k - 1, col), g, idx[k], idx[k] + 1, col)

\* LEDs of the bass bar: 1..6 (thresholds 1, 1.25, 1.5, 1.75, 2 times porig)
TierR(amp, porig) ==
    IF amp < porig THEN 1
    ELSE IF 4 * amp < 5 * porig THEN 2
    ELSE IF 2 * amp < 3 * porig THEN 3
    ELSE IF 4 * amp < 7 * porig THEN 4
    ELSE IF amp < 2 * porig THEN 5
    ELSE 6

\* mutant: the final else of the mid and treble bars is missing its own fill
TierGBFour(amp, porig) ==
    IF amp < porig THEN 1
    ELSE IF 10 * amp < 13 * porig THEN 2
    ELSE IF 10 * amp < 16 * porig THEN 3
    ELSE 4

\* LEDs of the mid and treble bars: 1..5 (thresholds 1, 1.3, 1.6, 1.9 times porig)
TierGB(amp, porig) ==
    IF amp < porig THEN 1
    ELSE IF 10 * amp < 13 * porig THEN 2
    ELSE IF 10 * amp < 16 * porig THEN 3
    ELSE IF 10 * amp < 19 * porig THEN 4
    ELSE 5

\* mutant: the mid bar starts on the last cell of the bass segment
BarsOverlapping(res, g) ==
    LET r1 == Wr(res, g, 0, TierR(ampR, porigR), CRGB(255, 0, 0))
        r2 == Wr(r1, g, 5, 5 + TierGB(ampG, porigG), CRGB(0, 255, 0))
    IN  Wr(r2, g, 11, 11 + TierGB(ampB, porigB), CRGB(0, 0, 255))

\* the three bars of the tiered modes, starting at cells 0, 6 and 11 of g
Bars(res, g) ==
    LET r1 == Wr(res, g, 0, TierR(ampR, porigR), CRGB(255, 0, 0))
        r2 == Wr(r1, g, 6, 6 + TierGB(ampG, porigG), CRGB(0, 255, 0))
    IN  Wr(r2, g, 11, 11 + TierGB(ampB, porigB), CRGB(0, 0, 255))

\* int totalAmp = (ampR + ampG + ampB) / 3
TotalAmp ==
    (ampR + ampG + ampB) \div 3

\* int brightness = map(totalAmp, 0, ceiling, 0, 255)
Brightness(ceiling) ==
    Map(TotalAmp, 0, ceiling, 0, 255)

\* mutant: the fills of the buckets up to 2750 and up to 3000 are exchanged
BucketCountSwapped(e) ==
    LET n == (e + 249) \div 250
    IN  IF e > 4000 THEN 0
        ELSE IF e <= 250 THEN 1
        ELSE IF n = 11 THEN 12
        ELSE IF n = 12 THEN 11
        ELSE n

\* the if / else-if chain of mode 3 ("groups"): cells of leds_16_circle lit
BucketCount(e) ==
    IF e <= 250 THEN 1
    ELSE IF e <= 500 THEN 2
    ELSE IF e <= 750 THEN 3
    ELSE IF e <= 1000 THEN 4
    ELSE IF e <= 1250 THEN 5
    ELSE IF e <= 1500 THEN 6
    ELSE IF e <= 1750 THEN 7
    ELSE IF e <= 2000 THEN 8
    ELSE IF e <= 2250 THEN 9
    ELSE IF e <= 2500 THEN 10
    ELSE IF e <= 2750 THEN 11
    ELSE IF e <= 3000 THEN 12
    ELSE IF e <= 3250 THEN 13
    ELSE IF e <= 3500 THEN 14
    ELSE IF e <= 3750 THEN 15
    ELSE IF e <= 4000 THEN 16
    ELSE 0

redColumn ==
    <<0, 7, 8, 15>>

\* mutant: the second column is taken from the cells next to the first
greenColumnShifted ==
    <<1, 6, 9, 12>>

greenColumn ==
    <<1, 6, 9, 14>>

blueColumn ==
    <<2, 5, 10, 13>>

\* FastLED.clear() inside a branch
ClearIn(res) ==
    [res EXCEPT !.buf = [g \in DOMAIN @ |-> [i \in DOMAIN @[g] |-> Black]],
                !.calls = Append(@, "clear")]

\* FastLED.show() inside a branch
ShowIn(res) ==
    [res EXCEPT !.calls = @ \o (IF res.n > 0 THEN <<"write">> ELSE <<>>) \o <<"show">>]

\* the seven branches of src/src/main.cpp
RenderStrips(k, res) ==
    LET wash  == CRGB(Brightness(600), 0, Brightness(600))
        wash7 == CRGB(Brightness(1500), 0, Brightness(1500))
    IN  CASE k = 1 -> Bars(res, "leds_circles")
          [] k = 2 -> Wr(res, "leds_circles", NUM_LEDS_CIRCLE1, NUM_LEDS_CIRCLES_TOTAL, wash)
          [] k = 3 -> Wr(res, "leds_circles", 0, NUM_LEDS_CIRCLES_TOTAL, wash)
          [] k = 4 -> Bars(res, "leds_squares")
          [] k = 5 -> Wr(res, "leds_squares", NUM_LEDS_SQUARE1, NUM_LEDS_SQUARES_TOTAL, wash)
          [] k = 6 -> Wr(res, "leds_squares", 0, NUM_LEDS_SQUARES_TOTAL, wash)
          [] k = 7 -> Wr(Wr(res, "leds_circles", 0, NUM_LEDS_CIRCLES_TOTAL, wash7),
                         "leds_squares", 0, NUM_LEDS_SQUARES_TOTAL, wash7)

\* mutant: the position is never taken back to 0
SweepNoWrap(res, elapsed) ==
    LET sc == res.sc
        r1 == Wr(res, "leds_12_circle", sc, sc + 1, CRGB(0, 0, 255))
    IN  [r1 EXCEPT !.sc = IF elapsed /\ avgEnergy > 0 THEN sc + 1 ELSE sc,
                   !.den = @ \cup {avgEnergy}]

\* mutant: the wrap test admits the position NUM_LEDS_12_CIRCLE itself
SweepWrapLate(res, elapsed) ==
    LET sc == IF res.sc <= NUM_LEDS_12_CIRCLE THEN res.sc ELSE 0
        r1 == Wr(res, "leds_12_circle", sc, sc + 1, CRGB(0, 0, 255))
    IN  [r1 EXCEPT !.sc = IF elapsed /\ avgEnergy > 0 THEN sc + 1 ELSE sc,
                   !.den = @ \cup {avgEnergy}]

\* mode 2 ("groups"): the sweep; `elapsed` is the outcome of the time test
\* millis() - current_time > 1000000 / avgEnergy, which cannot succeed when the
\* quotient is infinite (avgEnergy = 0)
Sweep(res, elapsed) ==
    LET sc == IF res.sc < NUM_LEDS_12_CIRCLE THEN res.sc ELSE 0
        r1 == Wr(res, "leds_12_circle", sc, sc + 1, CRGB(0, 0, 255))
    IN  [r1 EXCEPT !.sc = IF elapsed /\ avgEnergy > 0 THEN sc + 1 ELSE sc,
                   !.den = @ \cup {avgEnergy}]

\* mode 4 ("groups"): columns of the left square from the raw deviation
RawColumns(res) ==
    LET numLeds == Constrain(Map(block.rawDev, 0, 500, 0, 13), 0, 12)
        r0 == ClearIn(res)
        r1 == IF numLeds > 0
              THEN WrCells(r0, "leds_L_SQUARE", redColumn, Min(numLeds, 4), CRGB(255, 0, 0))
              ELSE r0
        r2 == IF numLeds > 4
              THEN WrCells(r1, "leds_L_SQUARE", greenColumn, Min(numLeds - 4, 4), CRGB(0, 255, 0))
              ELSE r1
        r3 == IF numLeds > 8
              THEN WrCells(r2, "leds_L_SQUARE", blueColumn, Min(numLeds - 8, 4), CRGB(0, 0, 255))
              ELSE r2
    IN  ShowIn(r3)

\* mutant: the right square is filled in the order of the left one
DualPathUnmirrored(res) ==
    LET nRr == Constrain(Map(block.rawR, 0, 255, 0, 5), 0, 4)
        nGr == Constrain(Map(block.rawG, 0, 255, 0, 5), 0, 4)
        nBr == Constrain(Map(block.rawB, 0, 255, 0, 5), 0, 4)
        nR  == Constrain(Map(ampR, 0, 255, 0, 5), 0, 4)
        nG  == Constrain(Map(ampG, 0, 255, 0, 5), 0, 4)
        nB  == Constrain(Map(ampB, 0, 255, 0, 5), 0, 4)
        r0 == ClearIn(res)
        l1 == Wr(r0, "leds_L_SQUARE", 0, nRr, CRGB(255, 0, 0))
        l2 == Wr(l1, "leds_L_SQUARE", 4, 4 + nGr, CRGB(0, 255, 0))
        l3 == Wr(l2, "leds_L_SQUARE", 8, 8 + nBr, CRGB(0, 0, 255))
        q1 == Wr(l3, "leds_R_SQUARE", 0, nR, CRGB(255, 0, 0))
        q2 == Wr(q1, "leds_R_SQUARE", 4, 4 + nG, CRGB(0, 255, 0))
        q3 == Wr(q2, "leds_R_SQUARE", 8, 8 + nB, CRGB(0, 0, 255))
    IN  ShowIn(q3)

\* mode 5 ("groups"): left square from the raw path, right square mirrored
DualPath(res) ==
    LET nRr == Constrain(Map(block.rawR, 0, 255, 0, 5), 0, 4)
        nGr == Constrain(Map(block.rawG, 0, 255, 0, 5), 0, 4)
        nBr == Constrain(Map(block.rawB, 0, 255, 0, 5), 0, 4)
        nR  == Constrain(Map(ampR, 0, 255, 0, 5), 0, 4)
        nG  == Constrain(Map(ampG, 0, 255, 0, 5), 0, 4)
        nB  == Constrain(Map(ampB, 0, 255, 0, 5), 0, 4)
        r0 == ClearIn(res)
        l1 == Wr(r0, "leds_L_SQUARE", 0, nRr, CRGB(255, 0, 0))
        l2 == Wr(l1, "leds_L_SQUARE", 4, 4 + nGr, CRGB(0, 255, 0))
        l3 == Wr(l2, "leds_L_SQUARE", 8, 8 + nBr, CRGB(0, 0, 255))
        q1 == Wr(l3, "leds_R_SQUARE", NUM_LEDS_R_SQUARE - nR, NUM_LEDS_R_SQUARE, CRGB(255, 0, 0))
        q2 == Wr(q1, "leds_R_SQUARE", NUM_LEDS_R_SQUARE - 4 - nG, NUM_LEDS_R_SQUARE - 4, CRGB(0, 255, 0))
        q3 == Wr(q2, "leds_R_SQUARE", NUM_LEDS_R_SQUARE - 8 - nB, NUM_LEDS_R_SQUARE - 8, CRGB(0, 0, 255))
    IN  ShowIn(q3)

\* the seven branches of src/unnamed/part_000
RenderGroups(k, res, elapsed) ==
    LET b == Brightness(600)
    IN  CASE k = 1 -> Bars(res, "leds_16_circle")
          [] k = 2 -> Sweep(res, elapsed)
          [] k = 3 -> Wr(res, "leds_16_circle", 0, BucketCount(avgEnergy), CRGB(255, 0, 170))
          [] k = 4 -> RawColumns(res)
          [] k = 5 -> DualPath(res)
          [] k = 6 -> Wr(Wr(res, "leds_L_SQUARE", 0, NUM_LEDS_L_SQUARE, CRGB(b, 0, 0)),
                         "leds_R_SQUARE", 0, NUM_LEDS_R_SQUARE, CRGB(0, b, 0))
          [] k = 7 -> Wr(Wr(Wr(Wr(res,
                         "leds_16_circle", 0, NUM_LEDS_16_CIRCLE, CRGB(b, 0, 0)),
                         "leds_12_circle", 0, NUM_LEDS_12_CIRCLE, CRGB(0, b, 0)),
                         "leds_L_SQUARE", 0, NUM_LEDS_L_SQUARE, CRGB(b, 0, 0)),
                         "leds_R_SQUARE", 0, NUM_LEDS_R_SQUARE, CRGB(0, b, 0))

RenderBranch(k, elapsed) ==
    IF variant = "strips"
    THEN RenderStrips(k, Res(leds, small_circle))
    ELSE RenderGroups(k, Res(leds, small_circle), elapsed)


(* ------------------------ initial states ----------------------------- *)

Zero ==
    <<0, 1>>

InitTask ==
    /\ pc = "acquire"
    /\ cmp = 1
    /\ block = Silence
    /\ ampR = 0 /\ ampG = 0 /\ ampB = 0 /\ avgEnergy = 0
    /\ avgAmpR = Zero /\ avgAmpG = Zero /\ avgAmpB = Zero /\ count = 0
    /\ small_circle = 0
    /\ leds = Cleared(variant)
    /\ frame = Cleared(variant)
    /\ sink = <<>> /\ written = 0 /\ stages = <<>> /\ rendered = 0
    /\ cycles = 0
    /\ divisors = {}
    /\ assigned = {}

\* the locals of the second path before mode 5 has run
NoRaw ==
    [rawReal |-> <<>>, rawAmpR |-> 0, rawAmpG |-> 0, rawAmpB |-> 0,
     rawAvgEnergy |-> 0, normalized |-> FALSE, stages |-> <<>>]

InitSamples ==
    /\ readings = <<>>
    /\ vReal = <<>>
    /\ vRawData = <<>>
    /\ vImag = <<>>
    /\ normalized = FALSE
    /\ raw = NoRaw

Init ==
    /\ variant \in Variants
    /\ mode = InitialMode(variant)
    /\ signal \in Signals
    /\ modeHeld = {mode}
    /\ modeReads = 0
    /\ lastRequest = 0
    /\ requests = 0
    /\ InitTask
    /\ InitSamples

(* ---------------- webServerTask: the /modeK handlers ----------------- *)

Routes ==
    1..7

\* mutant: the handler of /mode7, copied from /mode6, still assigns 6
RouteModeSlip(k) ==
    IF k = 7 THEN 6 ELSE k

\* the value the handler of /modeK assigns to mode
RouteMode(k) ==
    k

\* mutant: the handler also restarts the smoother
HandleModeRestart(k) ==
    /\ mode' = RouteMode(k)
    /\ lastRequest' = k
    /\ requests' = requests + 1
    /\ modeHeld' = modeHeld \cup {RouteMode(k)}
    /\ count' = 0
    /\ UNCHANGED <<variant, signal, modeReads, sampleVars,
                   pc, cmp, block, ampR, ampG, ampB, avgEnergy, avgAmpR, avgAmpG,
                   avgAmpB, small_circle, leds, frame, sink, written, stages,
                   rendered, cycles, divisors, assigned>>

\* GET /modeK: mode = K; the response does not touch the pipeline's state
HandleMode(k) ==
    /\ mode' = RouteMode(k)
    /\ lastRequest' = k
    /\ requests' = requests + 1
    /\ modeHeld' = modeHeld \cup {RouteMode(k)}
    /\ UNCHANGED <<variant, signal, modeReads, taskVars, sampleVars>>

(* --------------------- lightMusicTask: one cycle --------------------- *)

\* mutant: the loop continues to the delay right after the render chain
StageAfterSkip(s) ==
    CASE s = "acquire" -> "analyze"
      [] s = "analyze" -> "smooth"
      [] s = "smooth"  -> "clear"
      [] s = "clear"   -> "render"
      [] s = "render"  -> "yield"
      [] s = "show"    -> "yield"
      [] s = "yield"   -> "acquire"

\* order of the stages of the loop body
StageAfter(s) ==
    CASE s = "acquire" -> "analyze"
      [] s = "analyze" -> "smooth"
      [] s = "smooth"  -> "clear"
      [] s = "clear"   -> "render"
      [] s = "render"  -> "show"
      [] s = "show"    -> "yield"
      [] s = "yield"   -> "acquire"

\* the sampling loop: SAMPLES reads of the microphone fill the block
AcquireBlock ==
    /\ pc = "acquire"
    /\ block' = signal
    /\ pc' = StageAfter(pc)
    /\ stages' = <<"acquire">>
    /\ sink' = <<>> /\ written' = 0 /\ rendered' = 0 /\ cmp' = 1
    /\ modeHeld' = {mode} /\ modeReads' = 0
    /\ divisors' = {}
    /\ assigned' = {}
    /\ UNCHANGED <<variant, mode, signal, lastRequest, requests, sampleVars,
                   ampR, ampG, ampB, avgEnergy, avgAmpR, avgAmpG, avgAmpB, count,
                   small_circle, leds, frame, cycles>>

\* DC removal, IIR, window, FFT, magnitude, band means, energy, normalisation
Analyze ==
    /\ pc = "analyze"
    /\ avgEnergy' = block.energy
    /\ ampR' = Normalize(block.bandR, block.energy, 150)
    /\ ampG' = Normalize(block.bandG, block.energy, 100)
    /\ ampB' = Normalize(block.bandB, block.energy, 150)
    /\ divisors' = divisors \cup NormalizeDivisors(block.energy)
    /\ pc' = StageAfter(pc)
    /\ stages' = Append(stages, "analyze")
    /\ UNCHANGED <<variant, mode, signal, modeHeld, modeReads, lastRequest, requests,
                   sampleVars, cmp, block, avgAmpR, avgAmpG, avgAmpB, count,
                   small_circle, leds, frame, sink, written, rendered, cycles, assigned>>

\* the moving average of the three amplitudes and its saturating count
Smooth ==
    /\ pc = "smooth"
    /\ avgAmpR' = Smoothed(avgAmpR, count, ampR)
    /\ avgAmpG' = Smoothed(avgAmpG, count, ampG)
    /\ avgAmpB' = Smoothed(avgAmpB, count, ampB)
    /\ count' = NextCount(count)
    /\ divisors' = divisors \cup {count + 1}
    /\ pc' = StageAfter(pc)
    /\ stages' = Append(stages, "smooth")
    /\ UNCHANGED <<variant, mode, signal, modeHeld, modeReads, lastRequest, requests,
                   sampleVars, cmp, block, ampR, ampG, ampB, avgEnergy,
                   small_circle, leds, frame, sink, written, rendered, cycles, assigned>>

\* mutant: the buffers are not cleared before the render chain
ClearSkipped ==
    /\ pc = "clear"
    /\ leds' = leds
    /\ sink' = Append(sink, "clear")
    /\ pc' = StageAfter(pc)
    /\ stages' = Append(stages, "clear")
    /\ UNCHANGED <<divisors, assigned, variant, mode, signal, modeHeld, modeReads, lastRequest, requests,
                   sampleVars, cmp, block, ampR, ampG, ampB, avgEnergy,
                   avgAmpR, avgAmpG, avgAmpB, count, small_circle, frame,
                   written, rendered, cycles>>

\* FastLED.clear() before the render chain
Clear ==
    /\ pc = "clear"
    /\ leds' = Cleared(variant)
    /\ sink' = Append(sink, "clear")
    /\ pc' = StageAfter(pc)
    /\ stages' = Append(stages, "clear")
    /\ UNCHANGED <<divisors, assigned, variant, mode, signal, modeHeld, modeReads, lastRequest, requests,
                   sampleVars, cmp, block, ampR, ampG, ampB, avgEnergy,
                   avgAmpR, avgAmpG, avgAmpB, count, small_circle, frame,
                   written, rendered, cycles>>

\* mutant: the first test of the chain always holds
ModeMatchesFirst(m, k) ==
    k = 1

\* mutant: the chain ends in a plain `else` instead of `else if (mode == 7)`
ModeMatchesElse(m, k) ==
    m = k \/ (k = 7 /\ m \notin 1..6)

\* the test `mode == k` of the chain
ModeMatches(m, k) ==
    m = k

\* One comparison of the chain if (mode == 1) ... else if (mode == 7): each
\* evaluates the volatile `mode` anew.  A match runs that branch and leaves the
\* chain; after the seventh mismatch no branch runs.
Compare ==
    /\ pc = "render"
    /\ modeReads' = modeReads + 1
    /\ stages' = IF cmp = 1 THEN Append(stages, "render") ELSE stages
    /\ IF ModeMatches(mode, cmp)
       THEN \E elapsed \in BOOLEAN :
              LET r == RenderBranch(cmp, elapsed)
              IN  /\ leds' = r.buf
                  /\ written' = written + r.n
                  /\ small_circle' = r.sc
                  /\ sink' = sink \o r.calls
                           \o (IF r.calls = <<>> /\ r.n > 0 THEN <<"write">> ELSE <<>>)
                  /\ frame' = IF r.calls = <<>> THEN frame ELSE r.buf
                  /\ rendered' = cmp
                  /\ divisors' = divisors \cup r.den
                  /\ assigned' = assigned \cup r.cells
                  /\ pc' = StageAfter(pc)
                  /\ cmp' = cmp
       ELSE /\ IF cmp < 7
               THEN cmp' = cmp + 1 /\ pc' = pc
               ELSE cmp' = cmp /\ pc' = StageAfter(pc)
            /\ UNCHANGED <<leds, written, small_circle, sink, frame, rendered, divisors,
                           assigned>>
    /\ UNCHANGED <<variant, mode, signal, modeHeld, lastRequest, requests, sampleVars,
                   block, ampR, ampG, ampB, avgEnergy, avgAmpR, avgAmpG, avgAmpB,
                   count, cycles>>

\* FastLED.show() after the render chain
Show ==
    /\ pc = "show"
    /\ frame' = leds
    /\ sink' = Append(sink, "show")
    /\ pc' = StageAfter(pc)
    /\ stages' = Append(stages, "show")
    /\ UNCHANGED <<divisors, assigned, variant, mode, signal, modeHeld, modeReads, lastRequest, requests,
                   sampleVars, cmp, block, ampR, ampG, ampB, avgEnergy,
                   avgAmpR, avgAmpG, avgAmpB, count, small_circle, leds,
                   written, rendered, cycles>>

\* vTaskDelay(50 ms), then the loop body starts over; n is the new cycle count
LoopBack(n) ==
    /\ pc = "yield"
    /\ pc' = StageAfter(pc)
    /\ stages' = Append(stages, "yield")
    /\ cycles' = n
    /\ UNCHANGED <<divisors, assigned, variant, mode, signal, modeHeld, modeReads, lastRequest, requests,
                   sampleVars, cmp, block, ampR, ampG, ampB, avgEnergy,
                   avgAmpR, avgAmpG, avgAmpB, count, small_circle, leds, frame,
                   sink, written, rendered>>

\* the loop runs MaxCycles cycles when the signal varies
Yield ==
    /\ cycles < MaxCycles
    /\ LoopBack(cycles + 1)

\* the loop runs forever on a steady signal; cycles are counted up to SteadyCycles
YieldSteady ==
    LoopBack(Min(cycles + 1, SteadyCycles))

\* the sound changes between two acquisitions (only AcquireBlock reads it)
SignalChange ==
    /\ pc = "acquire"
    /\ \E s \in Signals \ {signal} : signal' = s
    /\ UNCHANGED <<variant, mode, modeHeld, modeReads, lastRequest, requests,
                   taskVars, sampleVars>>

PipelineStep ==
    \/ AcquireBlock
    \/ Analyze
    \/ Smooth
    \/ Clear
    \/ Compare
    \/ Show

\* a request arrives at any moment, at most MaxRequests in a behaviour
Request ==
    /\ requests < MaxRequests
    /\ \E k \in Routes : HandleMode(k)

Next ==
    \/ PipelineStep
    \/ Yield
    \/ Request
    \/ SignalChange

Spec ==
    Init /\ [][Next]_vars


(* --------------- steady signal, unbounded run ------------------------ *)

\* one step of lightMusicTask
TaskStep ==
    PipelineStep \/ YieldSteady

\* In the long run a request arrives before the first block is acquired or once
\* the smoother has saturated, at most SteadyRequests in a behaviour.
RequestSteady ==
    /\ requests < SteadyRequests
    /\ (cycles = 0 /\ pc = "acquire") \/ count = CountCap
    /\ \E k \in Routes : HandleMode(k)

NextSteady ==
    \/ PipelineStep
    \/ YieldSteady
    \/ RequestSteady

\* lightMusicTask is the only task pinned to core 1 and never blocks except in
\* vTaskDelay, which returns: it always takes its next step.  No request ever
\* has to arrive.
SpecSteady ==
    Init /\ [][NextSteady]_vars /\ WF_vars(TaskStep)

(* ------------- mode held outside 1..7 (hypothetical) ----------------- *)

\* The program never assigns mode a value outside 1..7; the render chain's
\* behaviour on such a value is examined from a start with mode forced to one.
OutOfRangeModes ==
    {0, 8, 99}

InitAnyMode ==
    /\ variant \in Variants
    /\ mode \in OutOfRangeModes
    /\ signal \in Signals
    /\ modeHeld = {mode}
    /\ modeReads = 0
    /\ lastRequest = 0
    /\ requests = 0
    /\ InitTask
    /\ InitSamples

NextAnyMode ==
    \/ PipelineStep
    \/ Yield
    \/ Request

SpecAnyMode ==
    InitAnyMode /\ [][NextAnyMode]_vars

(* ---------------- energy buckets of mode 3 ("groups") ---------------- *)

\* a block of energy e with fixed band proportions
EnergySignal(e) ==
    IF e = 0 THEN Silence
    ELSE Sig(e, e \div 2, e \div 4, e, e \div 10, 150, 50, 37)

\* energies on and just above every bucket border, beyond the last one too
EnergyGrid ==
    {BucketWidth * k + d : k \in 0..EnergySteps, d \in {0, 1}}

\* the four-group build after GET /mode3 was handled before the first cycle
InitBuckets ==
    /\ variant = "groups"
    /\ mode = 3
    /\ signal \in {EnergySignal(e) : e \in EnergyGrid}
    /\ modeHeld = {InitialMode(variant), mode}
    /\ modeReads = 0
    /\ lastRequest = 3
    /\ requests = 1
    /\ InitTask
    /\ InitSamples

NextBuckets ==
    \/ PipelineStep
    \/ Yield

SpecBuckets ==
    InitBuckets /\ [][NextBuckets]_vars

(* ------------- sample-level acquisition (lines 243-264) -------------- *)

\* what analogRead may deliver, faults below 0 and above 4095 included
Readings ==
    {-1, 0, 100, AdcMax, AdcMax + 1}

\* mutant: the upper limit is not tested
CorrectedNoUpper(r, prev) ==
    IF r < 0
    THEN (IF Len(prev) > 0 THEN prev[Len(prev)] ELSE AdcMid)
    ELSE r

\* if (v < 0 || v > 4095) v = (i > 0) ? vReal[i - 1] : 2048;
Corrected(r, prev) ==
    IF r < 0 \/ r > AdcMax
    THEN (IF Len(prev) > 0 THEN prev[Len(prev)] ELSE AdcMid)
    ELSE r

\* one iteration of the sampling loop; "groups" copies the reading to
\* vRawData before the correction
AcquireSample ==
    /\ Len(vReal) < BlockLen
    /\ \E r \in Readings :
         /\ readings' = Append(readings, r)
         /\ vReal' = Append(vReal, Corrected(r, vReal))
         /\ vRawData' = IF variant = "groups" THEN Append(vRawData, r) ELSE vRawData
         /\ vImag' = Append(vImag, 0)
    /\ UNCHANGED <<variant, mode, signal, modeHeld, modeReads, lastRequest, requests,
                   taskVars, normalized, raw>>

NextAcquire ==
    AcquireSample

SpecAcquire ==
    Init /\ [][NextAcquire]_vars


(* -------- brightness wash over a grid of amplitudes (hypothetical) ---- *)

\* The normalised amplitudes the analysis delivers stay far below the ceilings
\* of the wash modes.  The brightness computation is examined as a function of
\* the three int amplitudes, from a start after the analysis with all three at
\* one value of a grid that reaches beyond both ceilings.
WashGrid ==
    {0, 1, 300, 599, 600, 603, 900, 1500, 1506, 1600}

\* the modes that wash their target with one brightness
WashModes(v) ==
    IF v = "strips" THEN {2, 3, 5, 6, 7} ELSE {6, 7}

\* in_max of the map() call of wash mode k
Ceiling(v, k) ==
    IF v = "strips" /\ k = 7 THEN 1500 ELSE 600

InitWash ==
    /\ variant \in Variants
    /\ mode \in WashModes(variant)
    /\ signal \in Signals
    /\ modeHeld = {InitialMode(variant), mode}
    /\ modeReads = 0
    /\ lastRequest = mode
    /\ requests = 1
    /\ pc = "smooth"
    /\ cmp = 1
    /\ block = signal
    /\ \E a \in WashGrid : ampR = a /\ ampG = a /\ ampB = a
    /\ avgEnergy = signal.energy
    /\ avgAmpR = Zero /\ avgAmpG = Zero /\ avgAmpB = Zero /\ count = 0
    /\ small_circle = 0
    /\ leds = Cleared(variant)
    /\ frame = Cleared(variant)
    /\ sink = <<>> /\ written = 0 /\ stages = <<"acquire", "analyze">> /\ rendered = 0
    /\ cycles = 0
    /\ divisors = IF avgEnergy > 0 THEN {avgEnergy} ELSE {}
    /\ assigned = {}
    /\ InitSamples

NextWash ==
    \/ PipelineStep
    \/ Yield

SpecWash ==
    InitWash /\ [][NextWash]_vars

(* ------------- sample-level analysis (lines 266-407) ------------------ *)

\* The analysis is carried out on blocks of four samples, the largest block
\* whose transform has exact twiddle factors (1, -i, -1, i).  From DC removal
\* to the transform a value is held in hundredths; a magnitude, a band mean
\* and the energy are held in whole units.  Where the double computation keeps
\* more digits the value is cut toward zero.

\* what analogRead delivers in the blocks analysed, one fault included
AnalysisReadings ==
    {-1, 0, 100, 2000, AdcMax}

AnalysisBlocks ==
    AnalysisReadings \X AnalysisReadings \X AnalysisReadings \X AnalysisReadings

RECURSIVE Sum(_)
Sum(s) ==
    IF s = <<>> THEN 0 ELSE s[1] + Sum(Tail(s))

\* conversion of a quotient to fewer digits: toward zero
TruncDiv(a, d) ==
    IF a >= 0 THEN a \div d ELSE -((-a) \div d)

RECURSIVE IsqrtIn(_, _, _)
IsqrtIn(n, lo, hi) ==
    IF lo >= hi THEN lo
    ELSE LET mid == (lo + hi + 1) \div 2
         IN  IF mid * mid <= n THEN IsqrtIn(n, mid, hi) ELSE IsqrtIn(n, lo, mid - 1)

\* sqrt(n), cut to a whole number
Isqrt(n) ==
    IsqrtIn(n, 0, Min(n, 46340))

\* the sampling loop on a whole block: every reading corrected in turn
RECURSIVE CorrectedBlock(_)
CorrectedBlock(rs) ==
    IF rs = <<>> THEN <<>>
    ELSE LET prev == CorrectedBlock(SubSeq(rs, 1, Len(rs) - 1))
         IN  Append(prev, Corrected(rs[Len(rs)], prev))

\* mutant: the mean cut to whole counts before it is subtracted
DcRemovedWholeMean(x) ==
    [i \in 1..Len(x) |-> 100 * (x[i] - TruncDiv(Sum(x), Len(x)))]

\* mean = sum / SAMPLES; v[i] -= mean   (counts in, hundredths out)
DcRemoved(x) ==
    [i \in 1..Len(x) |-> TruncDiv(100 * (Len(x) * x[i] - Sum(x)), Len(x))]

\* mutant: the previous input, not the previous output, fed back
RECURSIVE FilteredFromInput(_, _)
FilteredFromInput(x, k) ==
    IF k = 0 THEN <<>>
    ELSE IF k = 1 THEN <<x[1]>>
    ELSE Append(FilteredFromInput(x, k - 1), TruncDiv(7 * x[k - 1] + 3 * x[k], 10))

\* filtered[0] = v[0]; filtered[i] = 0.7 * filtered[i - 1] + 0.3 * v[i]:
\* the first k outputs
RECURSIVE Filtered(_, _)
Filtered(x, k) ==
    IF k = 0 THEN <<>>
    ELSE IF k = 1 THEN <<x[1]>>
    ELSE LET f == Filtered(x, k - 1)
         IN  Append(f, TruncDiv(7 * f[k - 1] + 3 * x[k], 10))

\* Hamming weights 0.54 - 0.46 * cos(2 * pi * i / (SAMPLES - 1)) of a block of
\* four, in hundredths: 0.08, 0.77, 0.77, 0.08
HammingWeights ==
    <<8, 77, 77, 8>>

\* FFT.windowing(v, SAMPLES, FFT_WIN_TYP_HAMMING, FFT_FORWARD)
Windowed(x) ==
    [i \in 1..Len(x) |-> TruncDiv(x[i] * HammingWeights[i], 100)]

\* FFT.compute(re, im, SAMPLES, FFT_FORWARD) on four real points
Transformed(x) ==
    [re |-> <<x[1] + x[2] + x[3] + x[4], x[1] - x[3],
              x[1] - x[2] + x[3] - x[4], x[1] - x[3]>>,
     im |-> <<0, x[4] - x[2], 0, x[2] - x[4]>>]

\* FFT.complexToMagnitude: sqrt(re^2 + im^2) per bin (hundredths in, units out)
Magnitudes(re, im) ==
    [k \in 1..Len(re) |->
        Isqrt(TruncDiv(re[k], 100) * TruncDiv(re[k], 100)
              + TruncDiv(im[k], 100) * TruncDiv(im[k], 100))]

\* mutant: the first test of the chain reads i <= 20
BandInclusive(i, n) ==
    IF i * SAMPLES <= BassEnd * n THEN "bass"
    ELSE IF i * SAMPLES < MidEnd * n THEN "mid"
    ELSE "treble"

\* band of spectrum index i (from 0) of n: the borders 20 and 80 of 128
Band(i, n) ==
    IF i * SAMPLES < BassEnd * n THEN "bass"
    ELSE IF i * SAMPLES < MidEnd * n THEN "mid"
    ELSE "treble"

\* ampR /= 20; ampG /= 60; ampB /= 48;
BandDivisor(b) ==
    CASE b = "bass"   -> 20
      [] b = "mid"    -> 60
      [] b = "treble" -> 48

\* indices (from 1) of the bins of band b
BandBins(b, n) ==
    {k \in 1..n : Band(k - 1, n) = b}

\* amp += abs(v[i]) over the band, then amp /= width of the band
BandMean(mag, b) ==
    LET bins == BandBins(b, Len(mag))
    IN  Sum([k \in 1..Len(mag) |-> IF k \in bins THEN mag[k] ELSE 0])
            \div Cardinality(bins)

\* totalEnergy += v[i] * v[i]
TotalEnergy(mag) ==
    Sum([k \in 1..Len(mag) |-> mag[k] * mag[k]])

\* mutant: the energy is never below one unit
AvgEnergyFloored(mag) ==
    Max(1, Isqrt(TotalEnergy(mag) \div Len(mag)))

\* sqrt(totalEnergy / SAMPLES): positive exactly when some magnitude is
AvgEnergy(mag) ==
    LET r == Isqrt(TotalEnergy(mag) \div Len(mag))
    IN  IF r = 0 /\ TotalEnergy(mag) > 0 THEN 1 ELSE r

\* the stages of mode 5 on the raw copy (lines 546-586)
SecondPath(rawData) ==
    LET w   == Windowed(DcRemoved(rawData))
        t   == Transformed(w)
        mag == Magnitudes(t.re, t.im)
        e   == AvgEnergy(mag)
    IN  [rawReal      |-> mag,
         rawAmpR      |-> Normalize(BandMean(mag, "bass"), e, 150),
         rawAmpG      |-> Normalize(BandMean(mag, "mid"), e, 100),
         rawAmpB      |-> Normalize(BandMean(mag, "treble"), e, 150),
         rawAvgEnergy |-> e,
         normalized   |-> e > 0,
         stages       |-> <<"dc", "window", "fft", "magnitude", "bands", "energy",
                            "normalize">>]

\* the sampling loop (lines 243-264), a block at a time
AcquireAll ==
    /\ pc = "acquire"
    /\ \E rs \in AnalysisBlocks :
         /\ readings' = rs
         /\ vReal' = CorrectedBlock(rs)
         /\ vRawData' = IF variant = "groups" THEN rs ELSE vRawData
         /\ vImag' = [i \in 1..Len(rs) |-> 0]
    /\ pc' = "dc"
    /\ stages' = <<"acquire">>
    /\ UNCHANGED <<divisors, assigned, variant, mode, signal, modeHeld, modeReads, lastRequest, requests,
                   cmp, block, ampR, ampG, ampB, avgEnergy, avgAmpR, avgAmpG, avgAmpB,
                   count, small_circle, leds, frame, sink, written, rendered, cycles,
                   normalized, raw>>

\* a stage that rewrites the block: pc from `at` to `to`
BlockStage(at, to, re, im) ==
    /\ pc = at
    /\ vReal' = re
    /\ vImag' = im
    /\ pc' = to
    /\ stages' = Append(stages, at)
    /\ UNCHANGED <<divisors, assigned, variant, mode, signal, modeHeld, modeReads, lastRequest, requests,
                   cmp, block, ampR, ampG, ampB, avgEnergy, avgAmpR, avgAmpG, avgAmpB,
                   count, small_circle, leds, frame, sink, written, rendered, cycles,
                   readings, vRawData, normalized, raw>>

\* a stage that leaves the block and writes amplitudes or energy
ScalarStage(at, to, r, g, b, e, norm) ==
    /\ pc = at
    /\ ampR' = r /\ ampG' = g /\ ampB' = b
    /\ avgEnergy' = e
    /\ normalized' = norm
    /\ pc' = to
    /\ stages' = Append(stages, at)
    /\ UNCHANGED <<divisors, assigned, variant, mode, signal, modeHeld, modeReads, lastRequest, requests,
                   cmp, block, avgAmpR, avgAmpG, avgAmpB,
                   count, small_circle, leds, frame, sink, written, rendered, cycles,
                   readings, vReal, vRawData, vImag, raw>>

RemoveDC ==
    BlockStage("dc", "iir", DcRemoved(vReal), vImag)

Iir ==
    BlockStage("iir", "window", Filtered(vReal, Len(vReal)), vImag)

Windowing ==
    BlockStage("window", "fft", Windowed(vReal), vImag)

Compute ==
    BlockStage("fft", "magnitude", Transformed(vReal).re, Transformed(vReal).im)

ComplexToMagnitude ==
    BlockStage("magnitude", "bands", Magnitudes(vReal, vImag), vImag)

AggregateBands ==
    ScalarStage("bands", "energy", BandMean(vReal, "bass"), BandMean(vReal, "mid"),
                BandMean(vReal, "treble"), avgEnergy, normalized)

Energy ==
    ScalarStage("energy", "normalize", ampR, ampG, ampB, AvgEnergy(vReal), normalized)

\* if (avgEnergy > 0) { ampR = (ampR / avgEnergy) * 150; ... }
NormalizeBands ==
    ScalarStage("normalize", "second", Normalize(ampR, avgEnergy, 150),
                Normalize(ampG, avgEnergy, 100), Normalize(ampB, avgEnergy, 150),
                avgEnergy, avgEnergy > 0)

\* the analysis inside the branch of mode 5 ("groups")
SecondAnalysis ==
    /\ pc = "second"
    /\ variant = "groups"
    /\ ModeMatches(mode, 5)
    /\ raw' = SecondPath(vRawData)
    /\ pc' = "done"
    /\ UNCHANGED <<divisors, assigned, variant, mode, signal, modeHeld, modeReads, lastRequest, requests,
                   cmp, block, ampR, ampG, ampB, avgEnergy, avgAmpR, avgAmpG, avgAmpB,
                   count, small_circle, leds, frame, sink, written, stages, rendered,
                   cycles, readings, vReal, vRawData, vImag, normalized>>

\* power-on, or the four-group build after GET /mode5
InitAnalyze ==
    /\ variant \in Variants
    /\ \/ mode = InitialMode(variant) /\ lastRequest = 0 /\ requests = 0
       \/ variant = "groups" /\ mode = 5 /\ lastRequest = 5 /\ requests = 1
    /\ signal = Silence
    /\ modeHeld = {InitialMode(variant), mode}
    /\ modeReads = 0
    /\ InitTask
    /\ InitSamples

NextAnalyze ==
    \/ AcquireAll
    \/ RemoveDC
    \/ Iir
    \/ Windowing
    \/ Compute
    \/ ComplexToMagnitude
    \/ AggregateBands
    \/ Energy
    \/ NormalizeBands
    \/ SecondAnalysis

SpecAnalyze ==
    InitAnalyze /\ [][NextAnalyze]_vars

(* --------------- tiered bars over changing loudness ------------------- *)

\* a block whose three band means are a at energy 100: the normalised
\* amplitudes are 1.5 a, a and 1.5 a
TierSignal(a) ==
    Sig(a, a, a, IF a = 0 THEN 0 ELSE 100, a, a, a, a)

TierSignals ==
    {TierSignal(a) : a \in {0, 5, 20, 50, 100}}

\* the modes that draw the three bars
TierModes(v) ==
    IF v = "strips" THEN {1, 4} ELSE {1}

\* the build after a request for a tiered mode was handled before the first cycle
InitTiers ==
    /\ variant \in Variants
    /\ mode \in TierModes(variant)
    /\ signal \in TierSignals
    /\ modeHeld = {InitialMode(variant), mode}
    /\ modeReads = 0
    /\ lastRequest = mode
    /\ requests = 1
    /\ InitTask
    /\ InitSamples

YieldTiers ==
    /\ cycles < TierCycles
    /\ LoopBack(cycles + 1)

\* the loudness changes between two acquisitions
LoudnessChange ==
    /\ pc = "acquire"
    /\ \E s \in TierSignals \ {signal} : signal' = s
    /\ UNCHANGED <<variant, mode, modeHeld, modeReads, lastRequest, requests,
                   taskVars, sampleVars>>

NextTiers ==
    \/ PipelineStep
    \/ YieldTiers
    \/ LoudnessChange

SpecTiers ==
    InitTiers /\ [][NextTiers]_vars

(* ------------- the two squares of modes 4 and 5 ("groups") ------------ *)

\* normalised amplitude triples a block can have (bass, mid, treble)
SquareTriples ==
    {<<0, 0, 0>>, <<51, 51, 51>>, <<102, 102, 102>>, <<204, 51, 153>>,
     <<300, 0, 0>>, <<0, 0, 204>>, <<153, 102, 0>>}

\* mean absolute deviations of the raw copy on both sides of every step of
\* the LED count of mode 4, and one far above the scale
SquareDeviations ==
    {0, 38, 39, 76, 77, 115, 116, 153, 154, 192, 193, 230, 231, 269, 270,
     307, 308, 346, 347, 384, 385, 423, 424, 461, 462, 499, 500, 2000}

\* a block with normalised amplitudes p on the primary path and q on the
\* second path, and raw deviation dev (band means at energy 150)
SquareSignal(p, q, dev) ==
    Sig(p[1], (3 * p[2] + 1) \div 2, p[3], IF p = <<0, 0, 0>> THEN 0 ELSE 150,
        dev, q[1], q[2], q[3])

SquareSignals ==
    {SquareSignal(p, q, 100) : p \in SquareTriples, q \in SquareTriples}
        \cup {SquareSignal(<<51, 51, 51>>, <<51, 51, 51>>, d) : d \in SquareDeviations}

\* the four-group build after GET /mode4 or GET /mode5 was handled before the
\* first cycle
InitSquares ==
    /\ variant = "groups"
    /\ mode \in {4, 5}
    /\ signal \in SquareSignals
    /\ modeHeld = {InitialMode(variant), mode}
    /\ modeReads = 0
    /\ lastRequest = mode
    /\ requests = 1
    /\ InitTask
    /\ InitSamples

NextSquares ==
    \/ PipelineStep
    \/ Yield

SpecSquares ==
    InitSquares /\ [][NextSquares]_vars

(* ============================ claims ================================= *)

\* number of non-dark LEDs of buffer g
LitCount(buf, g) ==
    Cardinality({i \in DOMAIN buf[g] : buf[g][i] # Black})

AllDark(buf) ==
    \A g \in DOMAIN buf : LitCount(buf, g) = 0

\* the stages of one cycle, in the order of the loop body
StageOrder ==
    <<"acquire", "analyze", "smooth", "clear", "render", "show", "yield">>

\* executions of the smoothing step since start-up (exact below SteadyCycles)
SmoothSteps ==
    cycles + (IF pc \in {"clear", "render", "show", "yield"} THEN 1 ELSE 0)

\* C1: when the render chain of a cycle is left, the branch it ran (or none)
\* is the branch of one value that mode held during that cycle.
C1_RenderDecidedByOneHeldMode ==
    pc = "show" => rendered \in modeHeld

\* C2: mode is in 1..7 in every state: it is the start-up value until a request
\* is handled, and afterwards the number K of the last handled GET /modeK.
C2_ModeIsLastRequest ==
    /\ mode \in 1..7
    /\ lastRequest = 0 => mode = InitialMode(variant)
    /\ lastRequest # 0 => mode = lastRequest

C2_Witness ==
    /\ requests >= 2
    /\ lastRequest = 7
    /\ mode = 7
    /\ pc = "show"

\* C3: a cycle during which mode only held values outside 1..7 assigns no LED,
\* runs no branch and pushes an all-dark frame with one clear and one show; the
\* cycle still ran the smoother (the count advanced) and every other stage.
C3_OutOfRangeModeIsDark ==
    (pc = "yield" /\ modeHeld \cap (1..7) = {}) =>
        /\ written = 0
        /\ rendered = 0
        /\ AllDark(leds)
        /\ AllDark(frame)
        /\ sink = <<"clear", "show">>
        /\ stages = SubSeq(StageOrder, 1, 6)
        /\ count = Min(cycles + 1, CountCap)

C3_Witness ==
    /\ pc = "yield"
    /\ mode = 99
    /\ modeHeld = {99}
    /\ cycles = 1
    /\ block = Loud
    /\ AllDark(frame)

\* C4: in a finished cycle the LED Sink got exactly one clear, then the LED
\* writes, then exactly one show.
C4_OneClearThenOneShow ==
    pc = "yield" => sink \in {<<"clear", "show">>, <<"clear", "write", "show">>}

\* C5: the stages of a cycle run in the order acquire, analyze, smooth, clear,
\* render, show, yield with none skipped, in every mode, and a frame is pushed
\* to the LED Sink again and again whatever requests arrive.
C5_StagesInOrderForever ==
    /\ [](/\ Len(stages) <= Len(StageOrder)
          /\ stages = SubSeq(StageOrder, 1, Len(stages))
          /\ pc = "yield" => stages = SubSeq(StageOrder, 1, 6)
          /\ (pc = "acquire" /\ cycles > 0) => stages = StageOrder)
    /\ []<>(pc = "yield" /\ sink # <<>> /\ sink[Len(sink)] = "show" /\ frame = leds)

C5_Witness ==
    /\ pc = "acquire"
    /\ cycles >= 2
    /\ requests >= 1
    /\ mode # InitialMode(variant)
    /\ stages = StageOrder

\* C6: every acquired sample is in [0, 4095]: an in-range reading is kept, an
\* out-of-range reading at index i > 0 becomes the corrected sample i - 1, and
\* an out-of-range first reading becomes 2048.
C6_AcquiredSamplesInRange ==
    /\ Len(vReal) = Len(readings)
    /\ \A i \in 1..Len(vReal) :
         /\ vReal[i] \in 0..AdcMax
         /\ readings[i] \in 0..AdcMax => vReal[i] = readings[i]
         /\ (readings[i] \notin 0..AdcMax /\ i > 1) => vReal[i] = vReal[i - 1]
         /\ (readings[i] \notin 0..AdcMax /\ i = 1) => vReal[i] = AdcMid

C6_Witness ==
    /\ Len(vReal) = BlockLen
    /\ readings[1] < 0
    /\ readings[2] > AdcMax
    /\ vReal[1] = AdcMid
    /\ vReal[2] = AdcMid
    /\ readings[3] = vReal[3]

\* C7: the smoother's count is min(n, 50) after n executions of the smoothing
\* step, whatever modes were selected; so it starts at 0, never exceeds 50,
\* never decreases and is never reset.
C7_CountIsMinOfCyclesAnd50 ==
    /\ count \in 0..CountCap
    /\ count = Min(SmoothSteps, CountCap)

C7_Witness ==
    /\ cycles = SteadyCycles
    /\ count = CountCap
    /\ requests >= 1
    /\ mode # InitialMode(variant)

\* C8: after exactly 50 cycles with the same amplitudes A, starting from
\* averages 0 and count 0, each band's smoothed value equals that band's A.
C8_SteadyAverageIsAmplitude ==
    SmoothSteps = 50 =>
        /\ ampR = Normalize(signal.bandR, signal.energy, 150)
        /\ ampG = Normalize(signal.bandG, signal.energy, 100)
        /\ ampB = Normalize(signal.bandB, signal.energy, 150)
        /\ avgAmpR = <<ampR, 1>>
        /\ avgAmpG = <<ampG, 1>>
        /\ avgAmpB = <<ampB, 1>>

C8_Witness ==
    /\ SmoothSteps = 50
    /\ pc = "clear"
    /\ count = CountCap
    /\ ampR = 300
    /\ avgAmpR = <<300, 1>>
    /\ avgAmpG = <<33, 1>>

\* the energies 0, 250, ..., 4000
BucketBorders ==
    {BucketWidth * k : k \in 0..16}

\* LEDs of the 16-LED circle lit after the render chain
CircleLit ==
    LitCount(leds, "leds_16_circle")

\* C9: in mode 3 of the four-group build, over the energies 0, 250, ..., 4000
\* the number of lit LEDs of the 16-LED circle is non-decreasing in the
\* energy (no smaller energy of the list lights more) and reaches 16.
C9_BucketsNonDecreasingTo16 ==
    (pc = "show" /\ variant = "groups" /\ rendered = 3 /\ avgEnergy \in BucketBorders) =>
        /\ CircleLit <= NUM_LEDS_16_CIRCLE
        /\ \A e \in BucketBorders : e <= avgEnergy => BucketCount(e) <= CircleLit
        /\ avgEnergy = 4000 => CircleLit = NUM_LEDS_16_CIRCLE

C9_Witness ==
    /\ pc = "show"
    /\ variant = "groups"
    /\ rendered = 3
    /\ avgEnergy = 4000
    /\ CircleLit = 16
    /\ written = 16

\* C10: in mode 3 of the four-group build, for every energy, those above 4000
\* included, the number of lit LEDs is non-decreasing in the energy and stays
\* 16 once the top bucket (energy above 3750) is reached.
C10_BucketsSaturate ==
    (pc = "show" /\ variant = "groups" /\ rendered = 3) =>
        /\ \A e \in EnergyGrid : e <= avgEnergy => BucketCount(e) <= CircleLit
        /\ avgEnergy > 3750 => CircleLit = NUM_LEDS_16_CIRCLE

\* channel values other than 0 found in the LED buffers
LitChannels ==
    {leds[g][i][c] : <<g, i, c>> \in
        {<<g, i, c>> \in (DOMAIN leds) \X (0..31) \X (1..3) : i \in DOMAIN leds[g]}} \ {0}

\* the brightness of the contract: 0 at 0, linear below the ceiling, 255 from it on
ClampedBrightness(t, ceiling) ==
    IF t >= ceiling THEN 255 ELSE (t * 255) \div ceiling

C12_SilenceIsDark ==
    (pc = "yield" /\ block = Silence /\ rendered \in 1..7) => AllDark(frame)

\* the stages of the primary analysis, in the order of the loop body
AnalysisOrder ==
    <<"acquire", "dc", "iir", "window", "fft", "magnitude", "bands", "energy",
      "normalize">>

\* C13: an all-zero block leaves the analyzer with bass = mid = treble = 0 and
\* energy 0, and its normalisation is not executed.
C13_ZeroBlockAnalysesToZero ==
    (pc \in {"second", "done"} /\ \A i \in 1..Len(readings) : readings[i] = 0) =>
        /\ stages = AnalysisOrder
        /\ ampR = 0 /\ ampG = 0 /\ ampB = 0
        /\ avgEnergy = 0
        /\ ~normalized

C13_Witness ==
    /\ pc = "second"
    /\ readings = <<0, 0, 0, 0>>
    /\ vReal = <<0, 0, 0, 0>>
    /\ stages = AnalysisOrder
    /\ ~normalized

\* the buffer the tiered mode k of the build draws on
TierTarget ==
    IF variant = "groups" THEN "leds_16_circle"
    ELSE IF rendered = 1 THEN "leds_circles" ELSE "leds_squares"

\* cells of the tiered target holding colour col
CellsOf(col) ==
    {i \in DOMAIN leds[TierTarget] : leds[TierTarget][i] = col}

\* a tiered cycle has left the render chain
TierCycleRendered ==
    pc = "show" /\ rendered \in TierModes(variant)

\* C14 as stated: each band lights 1..6 LEDs and 6 in its top tier, the
\* amplitude being at least the highest multiple of the band's threshold.
C14_SixTiersPerBand ==
    TierCycleRendered =>
        /\ Cardinality(CellsOf(CRGB(255, 0, 0))) \in 1..6
        /\ Cardinality(CellsOf(CRGB(0, 255, 0))) \in 1..6
        /\ Cardinality(CellsOf(CRGB(0, 0, 255))) \in 1..6
        /\ ampR >= 2 * porigR => Cardinality(CellsOf(CRGB(255, 0, 0))) = 6
        /\ 10 * ampG >= 19 * porigG => Cardinality(CellsOf(CRGB(0, 255, 0))) = 6
        /\ 10 * ampB >= 19 * porigB => Cardinality(CellsOf(CRGB(0, 0, 255))) = 6

\* C14 (amended): the bass band has 6 tiers, the mid and the treble band have
\* 5.  Bass lights cells [0, n) with n in 1..6, n = 1 exactly below the
\* threshold and n = 6 exactly from twice the threshold on; mid lights
\* [6, 6 + n) and treble [11, 11 + n) with n in 1..5, n = 1 exactly below the
\* threshold and n = 5 exactly from 1.9 times the threshold on.
C14_SixFiveFiveTiers ==
    TierCycleRendered =>
        LET r == CellsOf(CRGB(255, 0, 0))
            g == CellsOf(CRGB(0, 255, 0))
            b == CellsOf(CRGB(0, 0, 255))
        IN  /\ Cardinality(r) \in 1..6 /\ r = 0..(Cardinality(r) - 1)
            /\ Cardinality(g) \in 1..5 /\ g = 6..(5 + Cardinality(g))
            /\ Cardinality(b) \in 1..5 /\ b = 11..(10 + Cardinality(b))
            /\ Cardinality(r) = 1 <=> ampR < porigR
            /\ Cardinality(g) = 1 <=> ampG < porigG
            /\ Cardinality(b) = 1 <=> ampB < porigB
            /\ Cardinality(r) = 6 <=> ampR >= 2 * porigR
            /\ Cardinality(g) = 5 <=> 10 * ampG >= 19 * porigG
            /\ Cardinality(b) = 5 <=> 10 * ampB >= 19 * porigB

C14_Witness ==
    /\ TierCycleRendered
    /\ ampG > 0 /\ porigG > 0
    /\ 10 * ampG >= 19 * porigG
    /\ CellsOf(CRGB(0, 255, 0)) = 6..10
    /\ CellsOf(CRGB(255, 0, 0)) = 0..5
    /\ CellsOf(CRGB(0, 0, 255)) = 11..15

\* cells of buffer g holding colour col
CellsIn(g, col) ==
    {i \in DOMAIN leds[g] : leds[g][i] = col}

\* the order in which mode 4 lights the left square
ColumnOrder ==
    <<0, 7, 8, 15, 1, 6, 9, 14, 2, 5, 10, 13>>

\* the left square shows the first n cells of ColumnOrder: red, green, blue by
\* fours, everything else dark
LeftSquareShows(n) ==
    /\ CellsIn("leds_L_SQUARE", CRGB(255, 0, 0)) = {ColumnOrder[j] : j \in 1..Min(n, 4)}
    /\ CellsIn("leds_L_SQUARE", CRGB(0, 255, 0)) = {ColumnOrder[j] : j \in 5..Min(n, 8)}
    /\ CellsIn("leds_L_SQUARE", CRGB(0, 0, 255)) = {ColumnOrder[j] : j \in 9..Min(n, 12)}
    /\ LitCount(leds, "leds_L_SQUARE") = n
    /\ \A i \in {3, 4, 11, 12} : leds["leds_L_SQUARE"][i] = Black

\* C15 as stated: the LED count of mode 4 is the raw deviation scaled
\* linearly from [0, 500] to [0, 12], and the left square shows that many
\* cells in column order.
C15_CountScaledTo12 ==
    (pc = "show" /\ rendered = 4) =>
        LeftSquareShows(Constrain((block.rawDev * 12) \div 500, 0, 12))

\* C15 (amended): the LED count of mode 4 is the raw deviation scaled linearly
\* from [0, 500] to [0, 13] and then limited to 12, i.e.
\* min(12, deviation * 13 / 500 cut to an integer); the left square shows the
\* first `count` cells of 0,7,8,15, 1,6,9,14, 2,5,10,13, red up to 4, green
\* from the 5th and blue from the 9th, and cells 3, 4, 11, 12 stay dark.
C15_CountScaledTo13Limited ==
    (pc = "show" /\ rendered = 4) =>
        LeftSquareShows(Min(12, (block.rawDev * 13) \div 500))

C15_Witness ==
    /\ pc = "show"
    /\ rendered = 4
    /\ block.rawDev = 462
    /\ LitCount(leds, "leds_L_SQUARE") = 12
    /\ leds["leds_L_SQUARE"][13] = CRGB(0, 0, 255)
    /\ frame = leds

\* LEDs a band lights in mode 5 for amplitude a: a scaled from [0, 255] to
\* [0, 5], limited to 4
DualCount(a) ==
    Min(4, (a * 5) \div 255)

\* C17: in mode 5 each band lights n in 0..4 LEDs; the left square shows
\* red [0, n), green [4, 4 + n), blue [8, 8 + n) for the counts of the second
\* path, the right square red [16 - n, 16), green [12 - n, 12), blue [8 - n, 8)
\* for the counts of the primary path; no other cell is lit, and with equal
\* counts per band cell i of the left square has the colour of cell 15 - i of
\* the right square.
C17_SquaresMirrored ==
    (pc = "show" /\ rendered = 5) =>
        LET lR == DualCount(block.rawR)
            lG == DualCount(block.rawG)
            lB == DualCount(block.rawB)
            rR == DualCount(ampR)
            rG == DualCount(ampG)
            rB == DualCount(ampB)
        IN  /\ CellsIn("leds_L_SQUARE", CRGB(255, 0, 0)) = 0..(lR - 1)
            /\ CellsIn("leds_L_SQUARE", CRGB(0, 255, 0)) = 4..(3 + lG)
            /\ CellsIn("leds_L_SQUARE", CRGB(0, 0, 255)) = 8..(7 + lB)
            /\ LitCount(leds, "leds_L_SQUARE") = lR + lG + lB
            /\ CellsIn("leds_R_SQUARE", CRGB(255, 0, 0)) = (16 - rR)..15
            /\ CellsIn("leds_R_SQUARE", CRGB(0, 255, 0)) = (12 - rG)..11
            /\ CellsIn("leds_R_SQUARE", CRGB(0, 0, 255)) = (8 - rB)..7
            /\ LitCount(leds, "leds_R_SQUARE") = rR + rG + rB
            /\ (lR = rR /\ lG = rG /\ lB = rB) =>
                   \A i \in 0..15 : leds["leds_L_SQUARE"][i] = leds["leds_R_SQUARE"][15 - i]

C17_Witness ==
    /\ pc = "show"
    /\ rendered = 5
    /\ ampR = 204 /\ ampG = 51 /\ ampB = 153
    /\ block.rawR = 204 /\ block.rawG = 51 /\ block.rawB = 153
    /\ CellsIn("leds_L_SQUARE", CRGB(255, 0, 0)) = 0..3
    /\ CellsIn("leds_R_SQUARE", CRGB(255, 0, 0)) = 12..15
    /\ CellsIn("leds_R_SQUARE", CRGB(0, 0, 255)) = 5..7
    /\ leds["leds_L_SQUARE"][4] = leds["leds_R_SQUARE"][11]

\* C16: when mode 5 has run on a raw copy equal to the block the primary path
\* started from, the second path went through the stages of the primary path
\* (DC removal, IIR, window, transform, magnitude, bands, energy,
\* normalisation) and its three band amplitudes equal the primary ones.
C16_SecondPathSameStages ==
    (pc = "done" /\ vRawData = CorrectedBlock(readings)) =>
        /\ raw.stages = SubSeq(AnalysisOrder, 2, Len(AnalysisOrder))
        /\ raw.rawAmpR = ampR
        /\ raw.rawAmpG = ampG
        /\ raw.rawAmpB = ampB

\* C18: the sweep position changes only in the step that runs the branch of
\* mode 2 of the four-group build, so at most once per cycle, and there it
\* is taken modulo 12 and advanced by at most one; it stays within 0..12, and
\* the cell lit from it in a mode-2 cycle is exactly one cell with index in
\* 0..11.
C18_SweepPositionWraps ==
    /\ [](/\ small_circle \in 0..NUM_LEDS_12_CIRCLE
          /\ (pc = "show" /\ variant = "groups" /\ rendered = 2) =>
                /\ written = 1
                /\ Cardinality(CellsIn("leds_12_circle", CRGB(0, 0, 255))) = 1
                /\ CellsIn("leds_12_circle", CRGB(0, 0, 255)) \subseteq 0..11
                /\ LitCount(leds, "leds_12_circle") = 1)
    /\ [][small_circle' # small_circle =>
            /\ variant = "groups"
            /\ pc = "render" /\ pc' = "show"
            /\ mode = 2 /\ rendered' = 2
            /\ small_circle' - (small_circle % NUM_LEDS_12_CIRCLE) \in {0, 1}]_vars

C18_Witness ==
    /\ pc = "show"
    /\ variant = "groups"
    /\ rendered = 2
    /\ small_circle = NUM_LEDS_12_CIRCLE
    /\ leds["leds_12_circle"][11] = CRGB(0, 0, 255)
    /\ cycles >= 11

\* C19: no cycle, in any mode, executes a division whose denominator is zero;
\* in particular a mode-2 cycle with avgEnergy = 0 does not evaluate
\* 1000000 / avgEnergy.
C19_NoDivisionByZero ==
    0 \notin divisors

\* C20: the normalisation is executed exactly when the energy is positive;
\* then each band amplitude is its band mean divided by the energy and
\* multiplied by 150, 100, 150, and otherwise the three amplitudes are the
\* band means unchanged.  The same holds for the second path of mode 5.
C20_NormalisationGuarded ==
    /\ pc \in {"second", "done"} =>
         /\ normalized <=> avgEnergy > 0
         /\ normalized =>
              /\ ampR = (BandMean(vReal, "bass") * 150) \div avgEnergy
              /\ ampG = (BandMean(vReal, "mid") * 100) \div avgEnergy
              /\ ampB = (BandMean(vReal, "treble") * 150) \div avgEnergy
         /\ ~normalized =>
              /\ ampR = BandMean(vReal, "bass")
              /\ ampG = BandMean(vReal, "mid")
              /\ ampB = BandMean(vReal, "treble")
    /\ pc = "done" =>
         /\ raw.normalized <=> raw.rawAvgEnergy > 0
         /\ raw.normalized =>
              /\ raw.rawAmpR = (BandMean(raw.rawReal, "bass") * 150) \div raw.rawAvgEnergy
              /\ raw.rawAmpG = (BandMean(raw.rawReal, "mid") * 100) \div raw.rawAvgEnergy
              /\ raw.rawAmpB = (BandMean(raw.rawReal, "treble") * 150) \div raw.rawAvgEnergy
         /\ ~raw.normalized =>
              /\ raw.rawAmpR = BandMean(raw.rawReal, "bass")
              /\ raw.rawAmpG = BandMean(raw.rawReal, "mid")
              /\ raw.rawAmpB = BandMean(raw.rawReal, "treble")

C20_Witness ==
    /\ pc = "done"
    /\ readings = <<100, 100, 100, -1>>
    /\ avgEnergy = 0
    /\ ~normalized
    /\ raw.rawAvgEnergy > 0
    /\ raw.normalized
    /\ raw.rawAmpR > 0

BandNames ==
    {"bass", "mid", "treble"}

\* C21: of the 128 spectrum indices the chain puts 0..19 into bass, 20..79
\* into mid and 80..127 into treble, each index into exactly one band; the
\* divisors 20, 60, 48 are the numbers of indices of the three bands and add
\* up to 128.  In an analysed block every bin is summed into exactly one band.
C21_BandsPartitionSpectrum ==
    /\ \A i \in 0..(SAMPLES - 1) :
         /\ Band(i, SAMPLES) = "bass" <=> i \in 0..19
         /\ Band(i, SAMPLES) = "mid" <=> i \in 20..79
         /\ Band(i, SAMPLES) = "treble" <=> i \in 80..127
    /\ \A b \in BandNames : Cardinality(BandBins(b, SAMPLES)) = BandDivisor(b)
    /\ BandDivisor("bass") + BandDivisor("mid") + BandDivisor("treble") = SAMPLES
    /\ pc = "energy" =>
         /\ \A k \in 1..Len(vReal) :
              Cardinality({b \in BandNames : k \in BandBins(b, Len(vReal))}) = 1
         /\ BandMean(vReal, "bass") * Cardinality(BandBins("bass", Len(vReal)))
              + BandMean(vReal, "mid") * Cardinality(BandBins("mid", Len(vReal)))
              + BandMean(vReal, "treble") * Cardinality(BandBins("treble", Len(vReal)))
              \in (Sum(vReal) - 2)..Sum(vReal)
         /\ ampR = BandMean(vReal, "bass")
         /\ ampG = BandMean(vReal, "mid")
         /\ ampB = BandMean(vReal, "treble")

C21_Witness ==
    /\ pc = "energy"
    /\ vReal[1] > 0 /\ vReal[2] > 0 /\ vReal[3] > 0
    /\ ampR = vReal[1]
    /\ ampG = (vReal[2] + vReal[3]) \div 2
    /\ ampB = vReal[4]

\* what the pipeline task owns: its position, the sample buffers, amplitudes,
\* averages, count, sweep position and LED buffers
PipelineState ==
    <<pc, cmp, block, vReal, vRawData, vImag, ampR, ampG, ampB, avgEnergy,
      avgAmpR, avgAmpG, avgAmpB, count, small_circle, leds, frame>>

\* C22: a step that handles GET /modeK changes mode (to K) and leaves the
\* sample buffers, amplitudes, averages, count, sweep position and LED buffers
\* as they are; a step of the pipeline task leaves mode as it is.
C22_TasksShareOnlyMode ==
    [][/\ requests' # requests =>
            /\ mode' = lastRequest'
            /\ PipelineState' = PipelineState
       /\ PipelineState' # PipelineState =>
            /\ mode' = mode
            /\ requests' = requests]_vars

C22_Witness ==
    /\ pc = "show"
    /\ requests = 1
    /\ written > 0
    /\ rendered # 0
    /\ mode # rendered
    /\ count = 1

\* C23: after DC removal the block sums to zero, so its mean is 0; the same
\* holds for the DC removal of the second analysis on the retained copy.
C23_DcRemovedMeanIsZero ==
    /\ pc = "iir" =>
         /\ Sum(vReal) = 0
         /\ vReal = DcRemoved(CorrectedBlock(readings))
    /\ pc \notin {"acquire", "done"} /\ variant = "groups" =>
         Sum(DcRemoved(vRawData)) = 0

C23_Witness ==
    /\ pc = "iir"
    /\ Sum(CorrectedBlock(readings)) % Len(readings) # 0
    /\ \E i \in 1..Len(vReal) : vReal[i] < 0
    /\ \E i \in 1..Len(vReal) : vReal[i] > 0

\* C24: the block handed to the windowing is y with y[0] = x[0] and
\* y[i] = 0.7 * y[i - 1] + 0.3 * x[i] for every later i, where x is the block
\* after DC removal and y[i - 1] is the previous output.
C24_IirRecurrence ==
    pc = "window" =>
        LET x == DcRemoved(CorrectedBlock(readings))
        IN  /\ Len(vReal) = Len(x)
            /\ vReal[1] = x[1]
            /\ \A i \in 2..Len(x) :
                 vReal[i] = TruncDiv(7 * vReal[i - 1] + 3 * x[i], 10)

\* a block on which the previous output and the previous input differ
C24_Witness ==
    /\ pc = "window"
    /\ LET x == DcRemoved(CorrectedBlock(readings))
       IN  \E i \in 2..Len(x) :
             /\ vReal[i - 1] # x[i - 1]
             /\ vReal[i] # TruncDiv(7 * x[i - 1] + 3 * x[i], 10)

\* C25: in a cycle during which mode held only values of 1..7, the chain of
\* comparisons runs one of the seven branches, however the handlers' writes
\* fall between the comparisons.
C25_OneBranchPerCycle ==
    (pc = "show" /\ modeHeld \subseteq 1..7) => rendered \in 1..7

\* C26: once GET /modeK has been handled as the n-th request and no later
\* request is handled, every cycle that reaches FastLED.clear after that write
\* (its render chain starts after it) renders mode K, and a cycle that ran
\* wholly under mode K is eventually completed.
C26_ModeChangeTakesEffect ==
    \A n \in 1..SteadyRequests :
        /\ [](  (requests = n /\ pc = "clear")
                => (  [](pc = "show" => rendered = lastRequest)
                   \/ <>(requests # n)))
        /\ (requests = n)
             ~> (  requests # n
                \/ (pc = "yield" /\ rendered = lastRequest /\ modeHeld = {lastRequest}))

\* a request handled in the middle of a cycle, once the averages are saturated
C26_Witness ==
    /\ requests = 1
    /\ count = CountCap
    /\ cycles >= CountCap
    /\ pc = "yield"
    /\ lastRequest = 5
    /\ modeHeld = {InitialMode(variant), 5}

\* C27: in the four-group build the retained copy vRawData equals the
\* corrected block at every index acquired so far, and each of its values is
\* in 0..4095.
C27_RawCopyIsCorrected ==
    variant = "groups" =>
        /\ Len(vRawData) = Len(vReal)
        /\ \A i \in 1..Len(vRawData) :
             /\ vRawData[i] = vReal[i]
             /\ vRawData[i] \in 0..AdcMax

\* C28: every LED cell assigned by a render branch is a cell of a buffer of the
\* build, at an index from 0 to the buffer's length minus one.
C28_WritesInBounds ==
    \A c \in assigned :
        /\ c[1] \in GroupsOf(variant)
        /\ c[2] \in 0..(GroupLen(c[1]) - 1)

\* the sweep has written the last LED of the 12-LED circle
C28_Witness ==
    /\ pc = "show"
    /\ variant = "groups"
    /\ rendered = 2
    /\ small_circle = NUM_LEDS_12_CIRCLE
    /\ assigned = {<<"leds_12_circle", NUM_LEDS_12_CIRCLE - 1>>}

\* the cells a mode may light, as <<group, index>> pairs
TargetCells(v, k) ==
    LET span(g, a, b) == {<<g, i>> : i \in a..(b - 1)}
        whole(g) == span(g, 0, GroupLen(g))
    IN  IF v = "strips"
        THEN CASE k = 1 -> span("leds_circles", 0, NUM_LEDS_CIRCLE1)
               [] k = 2 -> span("leds_circles", NUM_LEDS_CIRCLE1, NUM_LEDS_CIRCLES_TOTAL)
               [] k = 3 -> whole("leds_circles")
               [] k = 4 -> span("leds_squares", 0, NUM_LEDS_SQUARE1)
               [] k = 5 -> span("leds_squares", NUM_LEDS_SQUARE1, NUM_LEDS_SQUARES_TOTAL)
               [] k = 6 -> whole("leds_squares")
               [] OTHER -> whole("leds_circles") \cup whole("leds_squares")
        ELSE CASE k \in {1, 3} -> whole("leds_16_circle")
               [] k = 2 -> whole("leds_12_circle")
               [] k = 4 -> whole("leds_L_SQUARE")
               [] k \in {5, 6} -> whole("leds_L_SQUARE") \cup whole("leds_R_SQUARE")
               [] OTHER -> UNION {whole(g) : g \in GroupsOf(v)}

\* the cells of a set of buffers that are not black
LitCells(buf) ==
    {c \in UNION {{<<g, i>> : i \in DOMAIN buf[g]} : g \in DOMAIN buf} :
        buf[c[1]][c[2]] # Black}

\* C29: the frame pushed by a cycle that rendered mode k has non-dark LEDs only
\* among the cells assigned in this cycle, and those lie in the target group(s)
\* of mode k; a cycle that rendered no mode pushes a dark frame.
C29_FrameLitOnlyInTarget ==
    pc = "yield" =>
        /\ LitCells(frame) \subseteq assigned
        /\ rendered \in 1..7 => assigned \subseteq TargetCells(variant, rendered)
        /\ rendered = 0 => AllDark(frame)

\* a cycle in one mode after a cycle that lit another group
C29_Witness ==
    /\ pc = "yield"
    /\ cycles = 1
    /\ requests >= 1
    /\ rendered = 4
    /\ mode = 4
    /\ InitialMode(variant) \in modeHeld
    /\ LitCells(frame) # {}

\* cells s form a run that starts at cell `first` and stays below cell `end`
RunFrom(s, first, end) ==
    /\ s # {}
    /\ s \subseteq first..(end - 1)
    /\ \A i \in s : first..i \subseteq s

\* C30: in a tiered cycle each band lights a run of cells that starts at the
\* first cell of its segment (bass 0, mid 6, treble 11) and stays inside the
\* segment [0,6), [6,11), [11,16), so the bars never overlap and every band has
\* at least one cell lit; for the thresholds of the cycle, which are not
\* negative, the length of each bar does not decrease when the amplitude grows.
C30_BarsMonotoneDisjointNonEmpty ==
    TierCycleRendered =>
        /\ RunFrom(CellsOf(CRGB(255, 0, 0)), 0, 6)
        /\ RunFrom(CellsOf(CRGB(0, 255, 0)), 6, 11)
        /\ RunFrom(CellsOf(CRGB(0, 0, 255)), 11, 16)
        /\ porigR >= 0 /\ porigG >= 0 /\ porigB >= 0
        /\ Cardinality(CellsOf(CRGB(255, 0, 0))) = TierR(ampR, porigR)
        /\ Cardinality(CellsOf(CRGB(0, 255, 0))) = TierGB(ampG, porigG)
        /\ Cardinality(CellsOf(CRGB(0, 0, 255))) = TierGB(ampB, porigB)
        /\ \A a \in 0..(2 * porigR + 1) : TierR(a, porigR) <= TierR(a + 1, porigR)
        /\ \A a \in 0..(2 * porigG + 1) : TierGB(a, porigG) <= TierGB(a + 1, porigG)
        /\ \A a \in 0..(2 * porigB + 1) : TierGB(a, porigB) <= TierGB(a + 1, porigB)

\* three bars of different lengths, none at its shortest or longest
C30_Witness ==
    /\ TierCycleRendered
    /\ porigR > 0
    /\ Cardinality(CellsOf(CRGB(255, 0, 0))) \in 2..5
    /\ Cardinality(CellsOf(CRGB(0, 255, 0))) \in 2..4
    /\ Cardinality(CellsOf(CRGB(0, 0, 255))) \in 2..4

====
